---- MODULE Spec2Model ----
(***************************************************************************)
(* Model of the Ansible module release_folder (src/src/release_folder.py). *)
(*                                                                         *)
(* One invocation of main() is one atomic action: the module is a          *)
(* single-threaded script that reads its parameters, works on a local      *)
(* filesystem subtree and exits through exit_json, through fail_json or    *)
(* with an uncaught exception.  The filesystem subtree is the state that   *)
(* survives between invocations.                                           *)
(*                                                                         *)
(* Strings that the code inspects (entry names, prefix, timestamp) are     *)
(* sequences of character codes, so that startswith, concatenation and     *)
(* the lexicographic order of sorted() are computed, not assumed.          *)
(* Symlink names directly under the base path are opaque and are TLA+      *)
(* strings; "" stands for a parameter that is None or empty (the code      *)
(* only ever tests its truth value).                                       *)
(***************************************************************************)
EXTENDS Integers, Sequences, FiniteSets, TLC

VARIABLES fs, pre, cfg, res, phase

vars == <<fs, pre, cfg, res, phase>>

-----------------------------------------------------------------------------
(* Bounds and program constants *)

\* keep ranges over 0..MaxKeep (and one negative value) in clean invocations
MaxKeep == 2

\* argument_spec: keep = dict(default='5', type='int')
DefaultKeep == 5

\* argument_spec: prefix = dict(default='release-'); character 1 is the
\* prefix character, so <<1>> plays the role of 'release-'
DefaultPrefix == <<1>>

\* the prefixes an invocation may pass: "" (documented) and the default
Prefixes == {<< >>, DefaultPrefix}

\* the entry names that may occur in the releases subfolder: with character
\* 1 for the prefix and for a digit, "r1" < "r12" < "x1" in Python's string
\* order; the last one does not start with the default prefix
Names == {<<1, 1>>, <<1, 1, 2>>, <<2, 1>>}

\* the symlink names an invocation may watch or set under the base path
SymNames == {"current", "latest"}

-----------------------------------------------------------------------------
(* Strings *)

\* str.startswith
startswith(s, p) == Len(p) <= Len(s) /\ SubSeq(s, 1, Len(p)) = p

\* Python's < on strings: lexicographic by character, a proper prefix is smaller
RECURSIVE StrLess(_, _)
StrLess(a, b) ==
    IF a = << >> THEN b # << >>
    ELSE IF b = << >> THEN FALSE
    ELSE IF Head(a) = Head(b) THEN StrLess(Tail(a), Tail(b))
    ELSE Head(a) < Head(b)

\* sorted(l, reverse=True) of a list without duplicates
RECURSIVE sorted_reverse(_)
sorted_reverse(S) ==
    IF S = {} THEN << >>
    ELSE LET m == CHOOSE x \in S : \A y \in S \ {x} : StrLess(y, x)
         IN <<m>> \o sorted_reverse(S \ {m})

\* l[keep:] for keep >= 0
slice_from(l, keep) ==
    IF keep >= Len(l) THEN << >> ELSE SubSeq(l, keep + 1, Len(l))

-----------------------------------------------------------------------------
(* The filesystem subtree                                                  *)
(*   fs.base : the base path exists (as a directory)                       *)
(*   fs.sub  : path/subfolder exists (as a directory)                      *)
(*   fs.rel  : the entries of path/subfolder, by name                      *)
(*   fs.top  : the entries path/<name> for the symlink names               *)

\* kinds of an entry of the releases subfolder: "rodir" is a directory that
\* shutil.rmtree cannot remove (OSError), "link" a symlink to a directory
RelKinds == {"absent", "dir", "rodir", "file", "link"}

\* what a symlink stores: the directory its target lives in, the target's
\* last component, and whether the stored path ends with a slash
Targets == [parent : {"releases", "elsewhere"}, base : Names, slash : BOOLEAN]

NoTarget == [parent |-> "none", base |-> << >>, slash |-> FALSE]

TopEntries ==
    {[kind |-> k, target |-> NoTarget] : k \in {"absent", "file", "dir"}}
        \cup {[kind |-> "link", target |-> t] : t \in Targets}

Absent == [kind |-> "absent", target |-> NoTarget]

\* os.path.exists / os.path.isdir / os.path.islink on path/subfolder/name
rel_exists(f, n) == f.base /\ f.sub /\ f.rel[n] # "absent"

rel_isdir(f, n) == f.base /\ f.sub /\ f.rel[n] \in {"dir", "rodir", "link"}

rel_islink(f, n) == f.base /\ f.sub /\ f.rel[n] = "link"

\* os.path.islink(path/name)
top_islink(f, s) == f.base /\ f.top[s].kind = "link"

\* os.path.exists(path/name) and not os.path.islink(path/name)
top_exists_not_link(f, s) == f.base /\ f.top[s].kind \in {"file", "dir"}

\* os.path.basename of a stored link target: the text after the last "/"
basename(t) == IF t.slash THEN << >> ELSE t.base

-----------------------------------------------------------------------------
(* Parameters of one invocation (module.params and module.check_mode)      *)

States == {"none", "cleaned", "exists"}

\* the timestamps tried with a prefix: the empty one (None and "" alike fail
\* "not timestamp") and those that name an entry of Names
Timestamps(prefix) ==
    {<< >>} \cup {SubSeq(n, Len(prefix) + 1, Len(n)) :
                     n \in {m \in Names : startswith(m, prefix)}}

AllTimestamps == UNION {Timestamps(p) : p \in Prefixes}

\* Parameters an invocation never reads stay at their defaults: an invalid
\* keep ends main() before anything else is read, only state=cleaned uses
\* keep and keep_symlinked_dirs, only state=exists reads timestamp.
Configs ==
    {c \in [state : States, check_mode : BOOLEAN, prefix : Prefixes,
            keep : (-1 .. MaxKeep) \cup {DefaultKeep},
            keep_symlinked_dirs : BOOLEAN,
            symlink_dirs : SUBSET SymNames,
            symlink : {""} \cup SymNames,
            timestamp : AllTimestamps] :
        /\ c.keep < 0 =>
              /\ c.prefix = DefaultPrefix /\ c.keep_symlinked_dirs
              /\ c.symlink_dirs = {} /\ c.symlink = "" /\ c.timestamp = << >>
        /\ c.state = "cleaned" => c.keep <= MaxKeep /\ c.timestamp = << >>
        /\ c.state # "cleaned" =>
              c.keep \in {-1, DefaultKeep} /\ c.keep_symlinked_dirs
        /\ c.state = "none" => c.timestamp = << >>
        /\ c.state = "exists" => c.timestamp \in Timestamps(c.prefix)}

NoConfig ==
    [state |-> "none", check_mode |-> FALSE, prefix |-> DefaultPrefix,
     keep |-> DefaultKeep, keep_symlinked_dirs |-> TRUE, symlink_dirs |-> {},
     symlink |-> "", timestamp |-> << >>]

-----------------------------------------------------------------------------
(* How main() ends *)

NoDict == [s \in {} |-> NoTarget]

\* path is the entry of the releases subfolder that a message ends with
NoResult ==
    [status |-> "none", msg |-> "", path |-> << >>, changed |-> FALSE,
     removed_releases |-> << >>, releases |-> {}, symlinked_folders |-> NoDict]

\* module.fail_json(msg=...): the invocation fails, no result fields
fail_json(m) == [NoResult EXCEPT !.status = "fail", !.msg = m]

\* module.fail_json(msg='Could not remove directory ' + remove_dir)
fail_json_at(m, n) == [NoResult EXCEPT !.status = "fail", !.msg = m, !.path = n]

\* an exception nothing catches: the interpreter ends with a traceback
uncaught(e) == [NoResult EXCEPT !.status = "crash", !.msg = e]

\* module.exit_json(changed=..., removed_releases=..., symlinked_folders=...,
\*                  releases=...)
exit_json(ch, removed, symlinked, existing) ==
    [status |-> "ok", msg |-> "", path |-> << >>, changed |-> ch,
     removed_releases |-> removed,
     releases |-> existing, symlinked_folders |-> symlinked]

Outcome(f, r) == [fs |-> f, res |-> r]

-----------------------------------------------------------------------------
(* release_folder.py *)

\* get_releases without its "not os.path.islink(abs_file)" test
get_releases_with_links(f, prefix) ==
    {n \in Names : startswith(n, prefix) /\ rel_isdir(f, n)}

\* the enumeration without its prefix test
get_releases_any_prefix(f, prefix) ==
    {n \in Names : rel_isdir(f, n) /\ ~rel_islink(f, n)}

\* get_releases(path, subfolder, prefix); os.listdir needs the subfolder
get_releases(f, prefix) ==
    {n \in Names : startswith(n, prefix) /\ rel_isdir(f, n) /\ ~rel_islink(f, n)}

\* ensure_dir(path); ensure_dir(os.path.join(path, subfolder))
ensure_dirs(f) == [f EXCEPT !.base = TRUE, !.sub = TRUE]

\* the setup without its "if not module.check_mode" guard
after_setup_always(f, c) == ensure_dirs(f)

\* directories_exist, and the tree after "Make sure the base directory and
\* the release directory exist"
directories_exist(f, c) == IF c.check_mode THEN f.base /\ f.sub ELSE TRUE

after_setup(f, c) == IF c.check_mode THEN f ELSE ensure_dirs(f)

\* symlink_dirs after "Add symlink to symlink_dirs, if it is not included yet"
symlink_dirs_of(c) ==
    IF c.symlink # "" THEN c.symlink_dirs \cup {c.symlink} ELSE c.symlink_dirs

\* the names the protection loop removes from the list: for each watched
\* name whose readlink succeeds, os.path.basename of the stored target
protected_names(f, dirs) ==
    {basename(f.top[s].target) : s \in {d \in dirs : top_islink(f, d)}}

\* dirs_to_remove after the protection loop
remove_protected(f, c, dirs) ==
    IF c.keep_symlinked_dirs
    THEN get_releases(f, c.prefix) \ protected_names(f, dirs)
    ELSE get_releases(f, c.prefix)

\* dirs_to_remove = sorted(dirs_to_remove, reverse=True)[keep:]
dirs_to_remove(f, c, dirs) ==
    slice_from(sorted_reverse(remove_protected(f, c, dirs)), c.keep)

\* changed computed inside "if not module.check_mode"
changed_only_if_deleted(c, l) == ~c.check_mode /\ Len(l) > 0

\* changed = len(dirs_to_remove)>0
changed_after_clean(c, l) == Len(l) > 0

\* "except OSError: pass": a failed rmtree does not end the loop
first_failure_ignored(f, l) == 0

\* the position in l of the first directory shutil.rmtree fails on, 0 if none
first_failure(f, l) ==
    LET bad == {i \in 1 .. Len(l) : f.rel[l[i]] = "rodir"}
    IN IF bad = {} THEN 0 ELSE CHOOSE i \in bad : \A j \in bad : i <= j

\* the deletion loop stopping one directory early
rmtree_upto_short(f, l, k) ==
    [f EXCEPT !.rel = [n \in Names |->
        IF \E i \in 1 .. k - 1 : l[i] = n THEN "absent" ELSE f.rel[n]]]

\* the tree after shutil.rmtree of l[1..k]
rmtree_upto(f, l, k) ==
    [f EXCEPT !.rel = [n \in Names |->
        IF \E i \in 1 .. k : l[i] = n THEN "absent" ELSE f.rel[n]]]

\* os.makedirs(release_dir): the directory and every missing parent
makedirs(f, n) ==
    [f EXCEPT !.base = TRUE, !.sub = TRUE, !.rel = [f.rel EXCEPT ![n] = "dir"]]

\* os.symlink only when no link is there yet
os_symlink_keep(f, s, n) ==
    IF top_islink(f, s) THEN f
    ELSE [f EXCEPT !.top = [f.top EXCEPT ![s] =
            [kind |-> "link",
             target |-> [parent |-> "releases", base |-> n, slash |-> FALSE]]]]

\* os.unlink(symlink_dir) if it is a link, then
\* os.symlink(release_dir, symlink_dir)
os_symlink(f, s, n) ==
    [f EXCEPT !.top = [f.top EXCEPT ![s] =
        [kind |-> "link",
         target |-> [parent |-> "releases", base |-> n, slash |-> FALSE]]]]

\* "Gather symlinks": readlink of every watched name, None when it raises
gather_symlinks(f, dirs) ==
    [s \in dirs |-> IF top_islink(f, s) THEN f.top[s].target ELSE NoTarget]

\* the end of main(): gather information if directories_exist, exit_json
report(f, c, exist, ch, removed) ==
    IF exist
    THEN Outcome(f, exit_json(ch, removed,
                              gather_symlinks(f, symlink_dirs_of(c)),
                              get_releases(f, c.prefix)))
    ELSE Outcome(f, exit_json(ch, removed, NoDict, {}))

\* if (state=='cleaned'): ...
cleaned(f, c, exist) ==
    IF ~(f.base /\ f.sub)
    THEN Outcome(f, uncaught("OSError"))   \* os.listdir in get_releases
    ELSE LET l == dirs_to_remove(f, c, symlink_dirs_of(c))
             k == first_failure(f, l)
         IN IF c.check_mode
            THEN report(f, c, exist, changed_after_clean(c, l), l)
            ELSE IF k > 0
                 THEN Outcome(rmtree_upto(f, l, k - 1),
                              fail_json_at("Could not remove directory", l[k]))
                 ELSE report(rmtree_upto(f, l, Len(l)), c, exist,
                             changed_after_clean(c, l), l)

\* the conflict checks of state=='exists'
release_conflict(f, n) == rel_exists(f, n) /\ ~rel_isdir(f, n)

\* the symlink check with os.path.isdir in place of os.path.exists
symlink_conflict_dirs_only(f, c) ==
    c.symlink # "" /\ f.base /\ f.top[c.symlink].kind = "dir"

symlink_conflict(f, c) == c.symlink # "" /\ top_exists_not_link(f, c.symlink)

\* "Create release directory, if not exists" (not guarded by check_mode)
create_release_dir(f, n) == IF rel_exists(f, n) THEN f ELSE makedirs(f, n)

\* if (state=='exists'): ...
exists(f, c, exist) ==
    LET n  == c.prefix \o c.timestamp
        f2 == create_release_dir(f, n)
    IN IF c.timestamp = << >>
       THEN Outcome(f, fail_json("Invalid timestamp parameter"))
       ELSE IF release_conflict(f, n)
       THEN Outcome(f, fail_json("Release directory exists,but is not a directory"))
       ELSE IF symlink_conflict(f2, c)
       THEN Outcome(f2, fail_json("Symlink exists but is not a symlink"))
       ELSE IF c.check_mode
       THEN report(f2, c, exist, TRUE, << >>)
       ELSE IF c.symlink = ""
       THEN Outcome(f2, uncaught("UnboundLocalError"))  \* symlink_dir unassigned
       ELSE report(os_symlink(f2, c.symlink, n), c, exist, TRUE, << >>)

\* main()
main(f, c) ==
    IF c.keep < 0 THEN Outcome(f, fail_json("Invalid keep parameter"))
    ELSE LET f1    == after_setup(f, c)
             exist == directories_exist(f, c)
         IN CASE c.state = "cleaned" -> cleaned(f1, c, exist)
              [] c.state = "exists"  -> exists(f1, c, exist)
              [] OTHER               -> report(f1, c, exist, FALSE, << >>)

-----------------------------------------------------------------------------
(* Initial trees *)

RegularTop ==
    {Absent} \cup {[kind |-> "link",
                    target |-> [parent |-> "releases", base |-> n, slash |-> FALSE]] :
                      n \in Names}

\* trees of release directories and of links to releases/<name>
RegularTrees ==
    [base : {TRUE}, sub : {TRUE}, rel : [Names -> {"absent", "dir"}],
     top : [SymNames -> RegularTop]]

\* the same with one entry of another kind: a directory that cannot be
\* removed, a plain file or a symlink in the releases subfolder; a file, a
\* directory, or a link stored with a trailing slash or pointing elsewhere
\* under the base path
IrregularTrees ==
    {[t EXCEPT !.rel[n] = k] :
        t \in RegularTrees, n \in Names, k \in RelKinds \ {"absent", "dir"}}
    \cup {[t EXCEPT !.top[s] = e] :
        t \in RegularTrees, s \in SymNames, e \in TopEntries \ RegularTop}

\* trees without the releases subfolder, and the missing base path
MissingTrees ==
    {[t EXCEPT !.sub = FALSE, !.rel = [n \in Names |-> "absent"]] :
        t \in RegularTrees \cup IrregularTrees}
    \cup {[base |-> FALSE, sub |-> FALSE, rel |-> [n \in Names |-> "absent"],
           top |-> [s \in SymNames |-> Absent]]}

Trees == RegularTrees \cup IrregularTrees \cup MissingTrees

TypeOK ==
    /\ fs \in [base : BOOLEAN, sub : BOOLEAN, rel : [Names -> RelKinds],
               top : [SymNames -> TopEntries]]
    /\ phase \in {"idle", "done"}
    /\ cfg \in Configs \cup {NoConfig}

-----------------------------------------------------------------------------
(* The state machine *)

Init ==
    /\ fs \in Trees
    /\ pre = fs
    /\ cfg = NoConfig
    /\ res = NoResult
    /\ phase = "idle"

\* one run of main() with parameters c on the current tree
Invoke(c) ==
    LET o == main(fs, c)
    IN /\ fs' = o.fs
       /\ res' = o.res
       /\ pre' = fs
       /\ cfg' = c
       /\ phase' = "done"

QueryConfigs == {c \in Configs : c.state = "none"}

CleanConfigs == {c \in Configs : c.state = "cleaned"}

CreateConfigs == {c \in Configs : c.state = "exists"}

Query == phase = "idle" /\ \E c \in QueryConfigs : Invoke(c)

Clean == phase = "idle" /\ \E c \in CleanConfigs : Invoke(c)

Create == phase = "idle" /\ \E c \in CreateConfigs : Invoke(c)

\* the caller has the result; the module keeps nothing but the tree
Return ==
    /\ phase = "done"
    /\ phase' = "idle"
    /\ pre' = fs
    /\ cfg' = NoConfig
    /\ res' = NoResult
    /\ UNCHANGED fs

Next == Query \/ Clean \/ Create \/ Return

Spec == Init /\ [][Next]_vars

-----------------------------------------------------------------------------
(* Vocabulary of the properties, stated on the tree and not on the code    *)

\* watchedSymlinkNames together with symlinkToSet
Watched(c) == c.symlink_dirs \cup (IF c.symlink = "" THEN {} ELSE {c.symlink})

\* path/s is a symlink whose target is the entry n of the releases subfolder
PointsAt(f, s, n) ==
    /\ f.top[s].kind = "link"
    /\ f.top[s].target.parent = "releases"
    /\ f.top[s].target.base = n

\* a real directory (not a symlink) in the releases subfolder
RealDir(f, n) == f.rel[n] \in {"dir", "rodir"}

\* the releases: real directories whose name starts with the prefix
ReleaseSet(f, prefix) == {n \in Names : startswith(n, prefix) /\ RealDir(f, n)}

\* the releases a watched symlink refers to, when protection is enabled
ProtectedSet(f, c) ==
    IF c.keep_symlinked_dirs
    THEN {n \in Names : \E s \in Watched(c) : PointsAt(f, s, n)}
    ELSE {}

Unprotected(f, c) == ReleaseSet(f, c.prefix) \ ProtectedSet(f, c)

\* the k lexicographically greatest names of U
Newest(U, k) == {n \in U : Cardinality({m \in U : StrLess(n, m)}) < k}

ToPrune(f, c) == Unprotected(f, c) \ Newest(Unprotected(f, c), c.keep)

SeqSet(l) == {l[i] : i \in 1 .. Len(l)}

IsDescending(l) == \A i \in 1 .. Len(l) - 1 : StrLess(l[i + 1], l[i])

\* the release directory a create invocation names
ReleaseName(c) == c.prefix \o c.timestamp

LinkTo(n) ==
    [kind |-> "link",
     target |-> [parent |-> "releases", base |-> n, slash |-> FALSE]]

Ran(op) == phase = "done" /\ cfg.state = op

ValidCreate == Ran("exists") /\ cfg.keep >= 0 /\ cfg.timestamp # << >>

-----------------------------------------------------------------------------
(* Properties *)

\* C1 (as claimed): a non-dry-run clean with protection enabled never removes
\* a release directory that a watched symlink (or symlinkToSet) points at,
\* whatever keep is, and leaves that symlink as it was.
C1_Protection ==
    (Ran("cleaned") /\ ~cfg.check_mode /\ cfg.keep_symlinked_dirs) =>
        \A s \in Watched(cfg), n \in Names :
            (PointsAt(pre, s, n) /\ RealDir(pre, n)) =>
                fs.rel[n] = pre.rel[n] /\ fs.top[s] = pre.top[s]

\* C2 (as claimed): a clean that returns a result reports exactly the
\* unprotected releases that are not among the keep greatest unprotected
\* names, in descending order, and a non-dry-run clean has removed exactly
\* those directories.
C2_RetentionOrdering ==
    (Ran("cleaned") /\ res.status = "ok") =>
        /\ SeqSet(res.removed_releases) = ToPrune(pre, cfg)
        /\ IsDescending(res.removed_releases)
        /\ ~cfg.check_mode =>
              \A n \in Names :
                  fs.rel[n] = IF n \in ToPrune(pre, cfg) THEN "absent"
                              ELSE pre.rel[n]

\* C3 (as claimed): an invocation in dry-run mode leaves the tree as it was.
C3_DryRunNoOp == (phase = "done" /\ cfg.check_mode) => fs = pre

\* C4: after a non-dry-run create with symlinkToSet that returns a result,
\* path/symlinkToSet is a symlink to releases/prefix+timestamp and that
\* directory exists, whatever was at the symlink's place before.
C4_SymlinkReplacement ==
    (Ran("exists") /\ ~cfg.check_mode /\ cfg.symlink # "" /\ res.status = "ok") =>
        /\ fs.top[cfg.symlink] = LinkTo(ReleaseName(cfg))
        /\ fs.base /\ fs.sub
        /\ fs.rel[ReleaseName(cfg)] \in {"dir", "rodir", "link"}

\* C4 witness: the symlink pointed at another release and was retargeted
C4_Witness ==
    /\ Ran("exists") /\ ~cfg.check_mode /\ cfg.symlink # "" /\ res.status = "ok"
    /\ pre.top[cfg.symlink].kind = "link"
    /\ pre.top[cfg.symlink].target.base # ReleaseName(cfg)
    /\ RealDir(pre, pre.top[cfg.symlink].target.base)
    /\ pre.rel[ReleaseName(cfg)] = "absent"
    /\ fs.top[cfg.symlink] = LinkTo(ReleaseName(cfg))

\* nothing of the wrong type is at the release path or at the symlink path
NoConflict(f, c) ==
    /\ f.rel[ReleaseName(c)] # "file"
    /\ c.symlink # "" => f.top[c.symlink].kind \in {"absent", "link"}

\* C5 (as claimed): a create with a valid timestamp and no conflicting path
\* succeeds with changed=true, and run again with the same parameters it
\* succeeds with changed=true and leaves the tree as the first run left it.
C5_IdempotentCreate ==
    (ValidCreate /\ NoConflict(pre, cfg)) =>
        /\ res.status = "ok" /\ res.changed
        /\ main(fs, cfg).res.status = "ok"
        /\ main(fs, cfg).res.changed
        /\ main(fs, cfg).fs = fs

IsDirectory(k) == k \in {"dir", "rodir", "link"}

IsSymlink(k) == k = "link"

\* the invocation gathered its report from an existing releases subfolder
Gathered ==
    /\ phase = "done" /\ res.status = "ok"
    /\ cfg.check_mode => (pre.base /\ pre.sub)

\* C6: an entry of the releases subfolder is in the reported release set if
\* and only if its name starts with the prefix, it is a directory and it is
\* not a symlink.
C6_EnumerationFilter ==
    Gathered =>
        \A n \in Names :
            n \in res.releases <=>
                /\ fs.rel[n] # "absent"
                /\ startswith(n, cfg.prefix)
                /\ IsDirectory(fs.rel[n])
                /\ ~IsSymlink(fs.rel[n])

\* C6 witness: a symlink to a directory whose name has the prefix is left
\* out, as is a directory whose name lacks the prefix, and a release is listed
C6_Witness ==
    /\ Gathered
    /\ \E n \in Names :
          /\ startswith(n, cfg.prefix) /\ fs.rel[n] = "link"
          /\ n \notin res.releases
    /\ \E m \in Names : m \in res.releases
    /\ \E x \in Names : fs.rel[x] = "dir" /\ x \notin res.releases

ConflictMessages ==
    {"Release directory exists,but is not a directory",
     "Symlink exists but is not a symlink"}

ReleaseOccupied == pre.rel[ReleaseName(cfg)] = "file"

SymlinkOccupied ==
    cfg.symlink # "" /\ pre.top[cfg.symlink].kind \in {"file", "dir"}

\* C7: a create with valid parameters fails with a conflict error when the
\* release path is a file or when path/symlinkToSet is a plain file or a
\* real directory; the conflicting path is untouched and no symlink is
\* created, removed or retargeted.
C7_ConflictDetection ==
    (ValidCreate /\ (ReleaseOccupied \/ SymlinkOccupied)) =>
        /\ res.status = "fail"
        /\ res.msg \in ConflictMessages
        /\ fs.top = pre.top
        /\ ReleaseOccupied => fs.rel[ReleaseName(cfg)] = "file"

\* C7 witness: a non-dry-run create finds a plain file at the symlink path
C7_Witness ==
    /\ ValidCreate /\ ~cfg.check_mode /\ SymlinkOccupied
    /\ pre.top[cfg.symlink].kind = "file"
    /\ res.status = "fail"
    /\ fs.top[cfg.symlink].kind = "file"

\* C8 (as claimed): a non-dry-run create with a valid timestamp and no
\* symlinkToSet succeeds with changed=true, the release directory exists
\* afterwards and no symlink under the base path is touched.
C8_SymlinkOptional ==
    (ValidCreate /\ ~cfg.check_mode /\ cfg.symlink = "" /\ ~ReleaseOccupied) =>
        /\ res.status = "ok" /\ res.changed
        /\ IsDirectory(fs.rel[ReleaseName(cfg)])
        /\ fs.top = pre.top

\* the result of the same clean on the same tree in the other mode
OtherMode == main(pre, [cfg EXCEPT !.check_mode = ~cfg.check_mode]).res

\* C9: on a tree whose base structure exists, a dry-run clean and a
\* non-dry-run clean that both return a result return the same
\* removed_releases and the same changed, and in both changed is true if and
\* only if removed_releases is not empty.
C9_DryRunPrediction ==
    (Ran("cleaned") /\ pre.base /\ pre.sub /\ res.status = "ok") =>
        /\ res.changed <=> (res.removed_releases # << >>)
        /\ OtherMode.status = "ok" =>
              /\ OtherMode.removed_releases = res.removed_releases
              /\ OtherMode.changed = res.changed

\* C9 witness: a dry-run clean predicts a removal the real run performs
C9_Witness ==
    /\ Ran("cleaned") /\ cfg.check_mode /\ res.status = "ok"
    /\ pre.base /\ pre.sub
    /\ Len(res.removed_releases) >= 2
    /\ res.changed
    /\ fs = pre
    /\ OtherMode.status = "ok"

ConfigurationMessages ==
    {"Invalid keep parameter", "Invalid timestamp parameter"}

\* C10 (as claimed): an invocation with a negative keep, or a create with a
\* missing or empty timestamp, fails with a configuration error and has
\* changed nothing in the tree.
C10_ConfigErrorsFirst ==
    (phase = "done" /\ (cfg.keep < 0 \/ (cfg.state = "exists" /\ cfg.timestamp = << >>))) =>
        /\ res.status = "fail"
        /\ res.msg \in ConfigurationMessages
        /\ fs = pre

\* the parameters pass validation, and a create meets no conflicting path
ValidRun ==
    /\ phase = "done" /\ cfg.keep >= 0
    /\ cfg.state = "exists" => (cfg.timestamp # << >> /\ NoConflict(pre, cfg))

\* C11 (as claimed): a dry-run query, clean or create on a tree without
\* the base path or without the releases subfolder returns a result with
\* empty releases and empty symlinked_folders, and does not fail.
C11_DryRunToleratesMissing ==
    (ValidRun /\ cfg.check_mode /\ ~(pre.base /\ pre.sub)) =>
        /\ res.status = "ok"
        /\ res.releases = {}
        /\ res.symlinked_folders = NoDict

\* the entry the symlink's stored target names exists in the releases
\* subfolder (links that point elsewhere are not decided by the tree)
ResolvesInReleases(f, e) ==
    /\ e.kind = "link" /\ e.target.parent = "releases"
    /\ f.sub /\ f.rel[e.target.base] # "absent"

BrokenInReleases(f, e) ==
    /\ e.kind = "link" /\ e.target.parent = "releases"
    /\ ~(f.sub /\ f.rel[e.target.base] # "absent")

\* C12 (as claimed): a gathered report has an entry for every watched
\* symlink name and for symlinkToSet; the entry is the target when the
\* symlink exists and its target exists, and the null marker when the
\* symlink does not exist or its target does not exist.
C12_SymlinkReporting ==
    Gathered =>
        /\ DOMAIN res.symlinked_folders = Watched(cfg)
        /\ \A s \in Watched(cfg) :
              /\ ResolvesInReleases(fs, fs.top[s]) =>
                    res.symlinked_folders[s] = fs.top[s].target
              /\ (fs.top[s].kind # "link" \/ BrokenInReleases(fs, fs.top[s])) =>
                    res.symlinked_folders[s] = NoTarget

\* the tree without the named symlinks that point outside the releases
\* subfolder
WithoutOutsideLinks(f) ==
    [f EXCEPT !.top = [s \in SymNames |->
        IF f.top[s].kind = "link" /\ f.top[s].target.parent = "elsewhere"
        THEN Absent ELSE f.top[s]]]

\* C13 (as claimed): in a clean with protection enabled, a watched symlink
\* that points outside the releases subfolder keeps no release out of the
\* removal: the removal is the one of the same tree without such symlinks.
C13_OutsideLinkProtectsNothing ==
    (Ran("cleaned") /\ cfg.keep_symlinked_dirs /\ res.status = "ok") =>
        res.removed_releases =
            main(WithoutOutsideLinks(pre), cfg).res.removed_releases

\* C14: an invocation without a state creates, deletes or retargets no
\* entry of the releases subfolder and no symlink, in dry-run mode it leaves
\* the whole tree as it was, and with a valid keep it returns changed=false
\* and an empty removed_releases.
C14_QueryOnly ==
    Ran("none") =>
        /\ fs.rel = pre.rel /\ fs.top = pre.top
        /\ cfg.check_mode => fs = pre
        /\ cfg.keep >= 0 =>
              /\ res.status = "ok"
              /\ ~res.changed
              /\ res.removed_releases = << >>

\* C14 witness: a query outside dry-run mode creates the missing base path
\* and releases subfolder and reports nothing changed
C14_Witness ==
    /\ Ran("none") /\ ~cfg.check_mode /\ res.status = "ok"
    /\ ~pre.base /\ fs.base /\ fs.sub
    /\ ~res.changed /\ res.removed_releases = << >>

\* the directories a clean marks for removal, in removal order: what the
\* same clean reports in dry-run mode
Marked == main(pre, [cfg EXCEPT !.check_mode = TRUE]).res.removed_releases

\* the positions of the marked directories whose removal fails
FailingAt == {i \in 1 .. Len(Marked) : pre.rel[Marked[i]] = "rodir"}

\* C15: when the removal of a marked directory fails in a non-dry-run
\* clean, the invocation fails naming the first such directory, the marked
\* directories before it are gone, it and the marked directories after it
\* are still there, and no result is returned.
C15_AbortOnFailedDeletion ==
    (Ran("cleaned") /\ ~cfg.check_mode /\ cfg.keep >= 0 /\ FailingAt # {}) =>
        \E k \in FailingAt :
            /\ \A j \in FailingAt : k <= j
            /\ res.status = "fail"
            /\ res.msg = "Could not remove directory"
            /\ res.path = Marked[k]
            /\ \A i \in 1 .. Len(Marked) :
                  fs.rel[Marked[i]] = IF i < k THEN "absent"
                                      ELSE pre.rel[Marked[i]]
            /\ ~res.changed
            /\ res.removed_releases = << >>
            /\ res.releases = {}

\* C15 witness: one directory was deleted, the next one failed, a third
\* marked directory was never tried
C15_Witness ==
    /\ Ran("cleaned") /\ ~cfg.check_mode /\ res.status = "fail"
    /\ Len(Marked) = 3
    /\ FailingAt = {2}
    /\ fs.rel[Marked[1]] = "absent"
    /\ fs.rel[Marked[2]] = "rodir"
    /\ fs.rel[Marked[3]] = "dir"

\* C16 (as claimed): in every successful non-dry-run invocation the reported
\* releases are the release directories on disk at return; after a clean
\* they are disjoint from removed_releases; after a create they contain
\* prefix+timestamp and symlinked_folders maps the symlink to set to the new
\* release directory.
C16_ReportAfterMutation ==
    (phase = "done" /\ ~cfg.check_mode /\ res.status = "ok") =>
        /\ res.releases = ReleaseSet(fs, cfg.prefix)
        /\ Ran("cleaned") => res.releases \cap SeqSet(res.removed_releases) = {}
        /\ Ran("exists") =>
              /\ ReleaseName(cfg) \in res.releases
              /\ cfg.symlink # "" =>
                    res.symlinked_folders[cfg.symlink] =
                        LinkTo(ReleaseName(cfg)).target

\* a real directory of the releases subfolder that the invocation deleted
Deleted(n) == RealDir(pre, n) /\ ~RealDir(fs, n)

\* an entry of the releases subfolder the enumeration filter excludes
Excluded(f, c, n) == ~startswith(n, c.prefix) \/ f.rel[n] \in {"file", "link"}

\* a clean never deletes the base path, the releases subfolder, a named
\* symlink or an entry the enumeration filter excludes
CleanFrame ==
    Ran("cleaned") =>
        /\ pre.base => fs.base
        /\ pre.sub => fs.sub
        /\ fs.top = pre.top
        /\ \A n \in Names : Excluded(pre, cfg, n) => fs.rel[n] = pre.rel[n]

\* C17 (as claimed): a release directory ceases to exist only in a
\* non-dry-run clean that lists it in removed_releases; the clean never
\* deletes the base path, the subfolder, a symlink or an excluded entry.
C17_Original ==
    phase = "done" =>
        /\ \A n \in Names : Deleted(n) =>
              /\ Ran("cleaned") /\ ~cfg.check_mode
              /\ n \in SeqSet(res.removed_releases)
        /\ CleanFrame

\* C17 (amended): a release directory ceases to exist only in a non-dry-run
\* clean that had marked it for removal, and it is listed in
\* removed_releases whenever that clean succeeds (a clean aborted by a
\* failed deletion returns no list); the clean never deletes the base path,
\* the subfolder, a symlink or an excluded entry.
C17_DeletionConfined ==
    phase = "done" =>
        /\ \A n \in Names : Deleted(n) =>
              /\ Ran("cleaned") /\ ~cfg.check_mode
              /\ n \in ReleaseSet(pre, cfg.prefix)
              /\ n \in SeqSet(Marked)
              /\ res.status = "ok" => n \in SeqSet(res.removed_releases)
        /\ CleanFrame

\* C17 witness: a clean deleted a release directory and then failed, next
\* to an entry of another prefix that it left alone
C17_Witness ==
    /\ Ran("cleaned") /\ ~cfg.check_mode /\ res.status = "fail"
    /\ \E n \in Names : Deleted(n)
    /\ \E n \in Names : ~startswith(n, cfg.prefix) /\ RealDir(fs, n)

\* every name of W is absent or points at an existing release directory
NoDangling(f, W) ==
    \A s \in W :
        \/ f.top[s].kind = "absent"
        \/ \E n \in Names : PointsAt(f, s, n) /\ RealDir(f, n)

\* the invocations C18 is about, for the watched set W
Maintains(W) ==
    /\ phase = "done" /\ ~cfg.check_mode /\ res.status = "ok"
    /\ \/ Ran("exists") /\ cfg.symlink \in W
       \/ Ran("cleaned") /\ cfg.keep_symlinked_dirs /\ Watched(cfg) = W

\* every name of W is absent or points at an existing entry of the
\* releases subfolder
NoBroken(f, W) ==
    \A s \in W :
        \/ f.top[s].kind = "absent"
        \/ \E n \in Names : PointsAt(f, s, n) /\ f.rel[n] # "absent"

\* C18 (as claimed): a successful non-dry-run create whose symlink is
\* watched, or clean with protection and the same watched names, started in
\* a tree where every watched symlink is absent or points at an existing
\* release directory, returns in a tree where no watched symlink is broken.
C18_NoDanglingWatched ==
    \A W \in SUBSET SymNames :
        (Maintains(W) /\ NoDangling(pre, W)) => NoBroken(fs, W)

\* C19: a successful non-dry-run clean, run again with the same
\* configuration on the tree it left, succeeds with an empty
\* removed_releases and changed=false and leaves the tree as it is.
C19_CleanIdempotent ==
    (Ran("cleaned") /\ ~cfg.check_mode /\ res.status = "ok") =>
        LET again == main(fs, cfg)
        IN /\ again.res.status = "ok"
           /\ again.res.removed_releases = << >>
           /\ ~again.res.changed
           /\ again.fs = fs

\* C19 witness: the first clean removed a release and kept another
C19_Witness ==
    /\ Ran("cleaned") /\ ~cfg.check_mode /\ res.status = "ok"
    /\ res.removed_releases # << >>
    /\ res.releases # {}
    /\ cfg.keep > 0

=============================================================================
